---- MODULE Spec2Model ----
(***************************************************************************)
(* Buffer pool manager and clock replacer of BusTub.                       *)
(*                                                                         *)
(* Every public operation of BufferPoolManager takes latch_ on entry and   *)
(* releases it on every return path, so each operation is one atomic       *)
(* action and an interleaving of concurrent callers is a sequence of       *)
(* actions.  Callers write page content through the returned Page pointer  *)
(* outside the latch; that is the action WriteData, which only SpecData    *)
(* includes.  SpecThreads makes the latch explicit: a thread takes latch_   *)
(* (Lock), runs the body of one operation and releases the latch on the    *)
(* return path it takes (Call).                                            *)
(*                                                                         *)
(* The repository holds two translation units of ClockReplacer (one keeps  *)
(* a std::vector, one a heap array); replacer_impl records which of them   *)
(* the build links.                                                        *)
(***************************************************************************)
EXTENDS Integers, Sequences, FiniteSets

\* ---------------------------------------------------------------- bounds
\* pool_size handed to the constructor
PoolSize == 2
\* number of page ids the disk manager hands out before the model stops
MaxPages == 3
\* highest pin count a frame reaches before FetchPage on a hit is cut off
MaxPin == 2
\* highest pin count a frame reaches in SpecData
MaxPinData == 1
\* number of threads that call the operations in SpecThreads
NumThreads == 2
\* highest pin count a frame reaches in SpecThreads
MaxPinThreads == 1
\* number of page ids the disk manager hands out in SpecThreads
MaxPagesThreads == 2

INVALID_PAGE_ID == -1

Frames == 0 .. (PoolSize - 1)
PageIds == 0 .. (MaxPages - 1)
\* page content: Zeroed is what Page::ResetMemory leaves
Zeroed == "zeroed"
Data == {Zeroed, "bytes"}
\* disk content of a page that was never written
NoData == "nodata"
\* no frame: an index one past the frame array
NoFrame == PoolSize
Threads == 1 .. NumThreads
\* owner of latch_ when it is unlocked
NoThread == 0

VARIABLES
  replacer_impl,   \* "vector" or "array": the ClockReplacer that is linked
  pages_,          \* frame -> [page_id_, pin_count_, is_dirty_, data_]
  page_table_,     \* function: resident page id -> frame
  free_list_,      \* sequence of frames
  frames,          \* replacer: frame -> [in_replacer, ref]
  clock_hand,      \* replacer: clock hand
  disk,            \* page id -> persisted content, NoData when never written
  next_page_id_,   \* disk manager: next id AllocatePage returns
  signalled,       \* content of TrackedPage last written and signalled by
                   \*   UnpinPage(TrackedPage, true); NoData when none is
  last,            \* the operation that produced this state
  latch_,          \* the thread that holds latch_, NoThread when unlocked
  pc               \* thread -> "idle" (outside a call) or "locked" (in a call,
                   \*   past latch_.lock())

vars == <<replacer_impl, pages_, page_table_, free_list_, frames, clock_hand,
          disk, next_page_id_, signalled, last, latch_, pc>>

\* ---------------------------------------------------------------- helpers
Resident(p) == p \in DOMAIN page_table_

Erase(pt, p) == [q \in (DOMAIN pt) \ {p} |-> pt[q]]

Put(pt, p, f) == [q \in (DOMAIN pt) \cup {p} |-> IF q = p THEN f ELSE pt[q]]

EmptyPage == [page_id_ |-> INVALID_PAGE_ID, pin_count_ |-> 0,
              is_dirty_ |-> FALSE, data_ |-> Zeroed]

\* the record of an operation: its name, its page id (argument, or the id
\* NewPage allocated), the frame it used, its result, and where the frame came
\* from ("hit": the directory, "free": the free list, "victim": the replacer,
\* "exhausted": FindVictim failed, "none": the page is not resident)
\* dealloc is the page id the operation handed to DiskManager::DeallocatePage,
\* INVALID_PAGE_ID when it made no such call.
Did(op, page_id, frame, ok, src) ==
  [op |-> op, page_id |-> page_id, frame |-> frame, ok |-> ok, src |-> src,
   dealloc |-> INVALID_PAGE_ID]

NoOp == Did("none", INVALID_PAGE_ID, NoFrame, FALSE, "none")

\* the page callers write to and whose content is followed: the first page id
TrackedPage == CHOOSE p \in PageIds : \A q \in PageIds : p <= q

Signal(p, bytes) == IF p = TrackedPage THEN bytes ELSE signalled

\* --------------------------------------------------------- clock replacer
ReplacerPin(fr, f) == [fr EXCEPT ![f].in_replacer = FALSE]

ReplacerUnpin(fr, f) == [fr EXCEPT ![f] = [in_replacer |-> TRUE, ref |-> TRUE]]

Size == Cardinality({f \in Frames : frames[f].in_replacer})

Found(h, fr) == [ok |-> TRUE, frame_id |-> h, clock_hand |-> h,
                 frames |-> [fr EXCEPT ![h].in_replacer = FALSE]]

NotFound(h, fr) == [ok |-> FALSE, frame_id |-> NoFrame, clock_hand |-> h,
                    frames |-> fr]

\* std::vector version: while loops that start one past the hand
RECURSIVE VecSecondRound(_, _, _)
VecSecondRound(h, start, fr) ==
  IF h = start THEN NotFound(h, fr)
  ELSE IF fr[h].in_replacer /\ ~fr[h].ref THEN Found(h, fr)
  ELSE VecSecondRound((h + 1) % PoolSize, start, fr)

RECURSIVE VecFirstRound(_, _, _, _)
VecFirstRound(h, start, fr, second_round) ==
  IF h = start
  THEN IF second_round
       THEN VecSecondRound((h + 1) % PoolSize, start, fr)
       ELSE NotFound(h, fr)
  ELSE IF fr[h].in_replacer
       THEN IF ~fr[h].ref
            THEN Found(h, fr)
            ELSE VecFirstRound((h + 1) % PoolSize, start,
                               [fr EXCEPT ![h].ref = FALSE], TRUE)
       ELSE VecFirstRound((h + 1) % PoolSize, start, fr, second_round)

VictimVector(hand, fr) == VecFirstRound((hand + 1) % PoolSize, hand, fr, FALSE)

\* array version: do-while loops that start at the hand
RECURSIVE ArrSecondRound(_, _, _)
ArrSecondRound(h, start, fr) ==
  IF fr[h].in_replacer /\ ~fr[h].ref THEN Found(h, fr)
  ELSE LET n == (h + 1) % PoolSize
       IN IF n # start THEN ArrSecondRound(n, start, fr) ELSE NotFound(n, fr)

RECURSIVE ArrFirstRound(_, _, _, _)
ArrFirstRound(h, start, fr, second_round) ==
  LET n == (h + 1) % PoolSize
      After(fr2, sr) == IF n # start THEN ArrFirstRound(n, start, fr2, sr)
                        ELSE IF sr THEN ArrSecondRound(n, start, fr2)
                        ELSE NotFound(n, fr2)
  IN IF fr[h].in_replacer
     THEN IF ~fr[h].ref
          THEN Found(h, fr)
          ELSE After([fr EXCEPT ![h].ref = FALSE], TRUE)
     ELSE After(fr, second_round)

VictimArray(hand, fr) == ArrFirstRound(hand, hand, fr, FALSE)

Victim(hand, fr) ==
  IF replacer_impl = "vector" THEN VictimVector(hand, fr)
  ELSE VictimArray(hand, fr)

\* ------------------------------------------------------------ disk manager
\* ReadPage: the persisted bytes of the page.
ReadPage(p) == disk[p]

WritePage(d, p, bytes) == [d EXCEPT ![p] = bytes]

\* ------------------------------------------------------ buffer pool manager
\* FindVictim that forgets free_list_.pop_front()
FindVictimNoPop ==
  IF free_list_ # << >>
  THEN [success |-> TRUE, victim |-> Head(free_list_), src |-> "free",
        free_list |-> free_list_, clock_hand |-> clock_hand,
        frames |-> frames]
  ELSE LET v == Victim(clock_hand, frames)
       IN [success |-> v.ok, victim |-> v.frame_id,
           src |-> IF v.ok THEN "victim" ELSE "exhausted",
           free_list |-> free_list_, clock_hand |-> v.clock_hand,
           frames |-> v.frames]

\* FindVictim that asks the replacer first and the free list only after it
FindVictimReplacerFirst ==
  LET v == Victim(clock_hand, frames)
  IN IF v.ok
     THEN [success |-> TRUE, victim |-> v.frame_id, src |-> "victim",
           free_list |-> free_list_, clock_hand |-> v.clock_hand,
           frames |-> v.frames]
     ELSE IF free_list_ # << >>
     THEN [success |-> TRUE, victim |-> Head(free_list_), src |-> "free",
           free_list |-> Tail(free_list_), clock_hand |-> v.clock_hand,
           frames |-> v.frames]
     ELSE [success |-> FALSE, victim |-> NoFrame, src |-> "exhausted",
           free_list |-> free_list_, clock_hand |-> v.clock_hand,
           frames |-> v.frames]

\* FindVictim: the free list first, the replacer only when it is empty.
FindVictim ==
  IF free_list_ # << >>
  THEN [success |-> TRUE, victim |-> Head(free_list_), src |-> "free",
        free_list |-> Tail(free_list_), clock_hand |-> clock_hand,
        frames |-> frames]
  ELSE LET v == Victim(clock_hand, frames)
       IN [success |-> v.ok, victim |-> v.frame_id,
           src |-> IF v.ok THEN "victim" ELSE "exhausted",
           free_list |-> free_list_, clock_hand |-> v.clock_hand,
           frames |-> v.frames]

\* write-back that takes place after ResetMemory has zeroed the frame
WriteBackAfterReset(victim) ==
  IF pages_[victim].is_dirty_
  THEN WritePage(disk, pages_[victim].page_id_, Zeroed)
  ELSE disk

\* write-back of the victim when it is dirty
WriteBack(victim) ==
  IF pages_[victim].is_dirty_
  THEN WritePage(disk, pages_[victim].page_id_, pages_[victim].data_)
  ELSE disk

\* Install that forgets page_table_.erase of the victim's old page id
InstallNoErase(victim, page_id) == Put(page_table_, page_id, victim)

\* the directory after the victim's old entry is erased and the new one put
Install(victim, page_id) ==
  Put(Erase(page_table_, pages_[victim].page_id_), page_id, victim)

\* FetchPage on a hit that forgets replacer_->Pin
FetchPageHitNoPin(page_id) ==
  LET fid == page_table_[page_id]
  IN /\ pages_' = [pages_ EXCEPT ![fid].pin_count_ = @ + 1]
     /\ last' = Did("Fetch", page_id, fid, TRUE, "hit")
     /\ UNCHANGED <<replacer_impl, page_table_, free_list_, frames, clock_hand,
                    disk, next_page_id_, signalled>>

FetchPageHit(page_id) ==
  LET fid == page_table_[page_id]
  IN /\ pages_' = [pages_ EXCEPT ![fid].pin_count_ = @ + 1]
     /\ frames' = IF pages_[fid].pin_count_ + 1 = 1
                  THEN ReplacerPin(frames, fid) ELSE frames
     /\ last' = Did("Fetch", page_id, fid, TRUE, "hit")
     /\ UNCHANGED <<replacer_impl, page_table_, free_list_, clock_hand,
                    disk, next_page_id_, signalled>>

FetchPageMiss(page_id) ==
  LET fv == FindVictim
  IN IF ~fv.success
     THEN /\ clock_hand' = fv.clock_hand
          /\ frames' = fv.frames
          /\ last' = Did("Fetch", page_id, NoFrame, FALSE, "exhausted")
          /\ UNCHANGED <<replacer_impl, pages_, page_table_, free_list_,
                         disk, next_page_id_, signalled>>
     ELSE LET victim == fv.victim
          IN /\ free_list_' = fv.free_list
             /\ clock_hand' = fv.clock_hand
             /\ frames' = fv.frames
             /\ disk' = WriteBack(victim)
             /\ page_table_' = Install(victim, page_id)
             /\ pages_' = [pages_ EXCEPT ![victim] =
                             [page_id_ |-> page_id, pin_count_ |-> 1,
                              is_dirty_ |-> FALSE,
                              data_ |-> ReadPage(page_id)]]
             /\ last' = Did("Fetch", page_id, victim, TRUE, fv.src)
             /\ UNCHANGED <<replacer_impl, next_page_id_, signalled>>

FetchPageImpl(page_id) ==
  IF Resident(page_id) THEN FetchPageHit(page_id) ELSE FetchPageMiss(page_id)

\* the decrement of UnpinPage without the test pin_count_ > 0
DecrementNoFloor(pin) == pin - 1

\* the pin count UnpinPage leaves: decremented only when it is above 0
Decrement(pin) == IF pin > 0 THEN pin - 1 ELSE pin

UnpinPageImpl(page_id, is_dirty) ==
  IF Resident(page_id)
  THEN LET fid == page_table_[page_id]
           pin == pages_[fid].pin_count_
       IN /\ pages_' = [pages_ EXCEPT
                          ![fid].pin_count_ = Decrement(pin),
                          ![fid].is_dirty_ = is_dirty]
          /\ frames' = IF pin > 0 /\ pin - 1 = 0
                       THEN ReplacerUnpin(frames, fid) ELSE frames
          /\ signalled' = IF is_dirty
                          THEN Signal(page_id, pages_[fid].data_)
                          ELSE signalled
          /\ last' = Did("Unpin", page_id, fid, TRUE, "hit")
          /\ UNCHANGED <<replacer_impl, page_table_, free_list_, clock_hand,
                         disk, next_page_id_>>
  ELSE /\ last' = Did("Unpin", page_id, NoFrame, FALSE, "none")
       /\ UNCHANGED <<replacer_impl, pages_, page_table_, free_list_, frames,
                      clock_hand, disk, next_page_id_, signalled>>

FlushPageImpl(page_id) ==
  IF Resident(page_id) /\ pages_[page_table_[page_id]].is_dirty_
  THEN LET fid == page_table_[page_id]
       IN /\ disk' = WritePage(disk, pages_[fid].page_id_, pages_[fid].data_)
          /\ pages_' = [pages_ EXCEPT ![fid].is_dirty_ = FALSE]
          /\ last' = Did("Flush", page_id, fid, TRUE, "hit")
          /\ UNCHANGED <<replacer_impl, page_table_, free_list_, frames,
                         clock_hand, next_page_id_, signalled>>
  ELSE /\ last' = IF Resident(page_id)
                  THEN Did("Flush", page_id, page_table_[page_id], FALSE, "hit")
                  ELSE Did("Flush", page_id, NoFrame, FALSE, "none")
       /\ UNCHANGED <<replacer_impl, pages_, page_table_, free_list_, frames,
                      clock_hand, disk, next_page_id_, signalled>>

NewPageImpl ==
  LET fv == FindVictim
  IN IF ~fv.success
     THEN /\ clock_hand' = fv.clock_hand
          /\ frames' = fv.frames
          /\ last' = Did("New", INVALID_PAGE_ID, NoFrame, FALSE, "exhausted")
          /\ UNCHANGED <<replacer_impl, pages_, page_table_, free_list_,
                         disk, next_page_id_, signalled>>
     ELSE LET victim == fv.victim
              page_id == next_page_id_
          IN /\ free_list_' = fv.free_list
             /\ clock_hand' = fv.clock_hand
             /\ disk' = WriteBack(victim)
             /\ next_page_id_' = next_page_id_ + 1
             /\ page_table_' = Install(victim, page_id)
             /\ pages_' = [pages_ EXCEPT ![victim] =
                             [page_id_ |-> page_id, pin_count_ |-> 1,
                              is_dirty_ |-> FALSE, data_ |-> Zeroed]]
             /\ frames' = ReplacerPin(fv.frames, victim)
             /\ last' = Did("New", page_id, victim, TRUE, fv.src)
             /\ UNCHANGED <<replacer_impl, signalled>>

\* DeletePage that does not look at the pin count
PageInUseNever(fid) == FALSE

\* "Someone is using the page": DeletePage refuses
PageInUse(fid) == pages_[fid].pin_count_ > 0

DeletePageImpl(page_id) ==
  IF Resident(page_id)
  THEN LET fid == page_table_[page_id]
       IN IF PageInUse(fid)
          THEN /\ last' = Did("Delete", page_id, fid, FALSE, "hit")
               /\ UNCHANGED <<replacer_impl, pages_, page_table_, free_list_,
                              frames, clock_hand, disk, next_page_id_,
                              signalled>>
          ELSE /\ frames' = ReplacerUnpin(frames, fid)
               /\ page_table_' = Erase(page_table_, page_id)
               /\ pages_' = [pages_ EXCEPT ![fid] = EmptyPage]
               /\ free_list_' = Append(free_list_, fid)
               /\ signalled' = Signal(page_id, NoData)
               /\ last' = [Did("Delete", page_id, fid, TRUE, "hit")
                             EXCEPT !.dealloc = page_id]
               /\ UNCHANGED <<replacer_impl, clock_hand, disk, next_page_id_>>
  ELSE /\ last' = Did("Delete", page_id, NoFrame, TRUE, "none")
       /\ UNCHANGED <<replacer_impl, pages_, page_table_, free_list_, frames,
                      clock_hand, disk, next_page_id_, signalled>>

RECURSIVE FlushFrom(_, _, _)
FlushFrom(i, pg, d) ==
  IF i = PoolSize THEN [pages |-> pg, disk |-> d]
  ELSE IF pg[i].page_id_ # INVALID_PAGE_ID /\ pg[i].is_dirty_
       THEN FlushFrom(i + 1, [pg EXCEPT ![i].is_dirty_ = FALSE],
                      WritePage(d, pg[i].page_id_, pg[i].data_))
       ELSE FlushFrom(i + 1, pg, d)

FlushAllPagesImpl ==
  LET r == FlushFrom(0, pages_, disk)
  IN /\ pages_' = r.pages
     /\ disk' = r.disk
     /\ last' = Did("FlushAll", INVALID_PAGE_ID, NoFrame, TRUE, "none")
     /\ UNCHANGED <<replacer_impl, page_table_, free_list_, frames,
                    clock_hand, next_page_id_, signalled>>

\* A caller that holds a pin writes bytes through the Page pointer.
WriteData(page_id, bytes) ==
  /\ Resident(page_id)
  /\ LET fid == page_table_[page_id]
     IN /\ pages_[fid].pin_count_ > 0
        /\ pages_[fid].data_ # bytes
        /\ pages_' = [pages_ EXCEPT ![fid].data_ = bytes]
        /\ last' = Did("Write", page_id, fid, TRUE, "hit")
  /\ signalled' = Signal(page_id, NoData)
  /\ UNCHANGED <<replacer_impl, page_table_, free_list_, frames, clock_hand,
                 disk, next_page_id_>>

\* Page ids a caller can name: the ones AllocatePage has handed out.
Allocated == 0 .. (next_page_id_ - 1)

\* Pages a caller fetches: resident ones, and ones with persisted bytes
\* (ReadPage of a never-written page is outside the disk contract).
Fetchable == {p \in Allocated : Resident(p) \/ disk[p] # NoData}

\* the pin count of the page is below n, when it is resident: the guard that
\* cuts off FetchPage on a hit
PinBelow(p, n) == Resident(p) => pages_[page_table_[p]].pin_count_ < n

Init ==
  /\ replacer_impl \in {"vector", "array"}
  /\ pages_ = [f \in Frames |-> EmptyPage]
  /\ page_table_ = << >>
  /\ free_list_ = [i \in 1 .. PoolSize |-> i - 1]
  /\ frames = [f \in Frames |-> [in_replacer |-> FALSE, ref |-> FALSE]]
  /\ clock_hand = 0
  /\ disk = [p \in PageIds |-> NoData]
  /\ next_page_id_ = 0
  /\ signalled = NoData
  /\ last = NoOp
  /\ latch_ = NoThread
  /\ pc = [t \in Threads |-> "idle"]

\* the operations of the buffer pool manager, each from latch_.lock() to the
\* latch_.unlock() of the return path it takes
Next ==
  \/ (\E p \in Fetchable : PinBelow(p, MaxPin) /\ FetchPageImpl(p))
       /\ UNCHANGED <<latch_, pc>>
  \/ (\E p \in Allocated, d \in BOOLEAN : UnpinPageImpl(p, d))
       /\ UNCHANGED <<latch_, pc>>
  \/ (\E p \in Allocated : FlushPageImpl(p)) /\ UNCHANGED <<latch_, pc>>
  \/ next_page_id_ < MaxPages /\ NewPageImpl /\ UNCHANGED <<latch_, pc>>
  \/ (\E p \in Allocated : DeletePageImpl(p)) /\ UNCHANGED <<latch_, pc>>
  \/ FlushAllPagesImpl /\ UNCHANGED <<latch_, pc>>

Spec == Init /\ [][Next]_vars

\* the operations, and a caller writing into the followed page while it
\* holds it pinned
NextData ==
  \/ (\E p \in Fetchable : PinBelow(p, MaxPinData) /\ FetchPageImpl(p))
       /\ UNCHANGED <<latch_, pc>>
  \/ (\E p \in Allocated, d \in BOOLEAN : UnpinPageImpl(p, d))
       /\ UNCHANGED <<latch_, pc>>
  \/ (\E p \in Allocated : FlushPageImpl(p)) /\ UNCHANGED <<latch_, pc>>
  \/ next_page_id_ < MaxPages /\ NewPageImpl /\ UNCHANGED <<latch_, pc>>
  \/ (\E p \in Allocated : DeletePageImpl(p)) /\ UNCHANGED <<latch_, pc>>
  \/ FlushAllPagesImpl /\ UNCHANGED <<latch_, pc>>
  \/ (\E b \in Data : WriteData(TrackedPage, b)) /\ UNCHANGED <<latch_, pc>>

SpecData == Init /\ [][NextData]_vars

\* ------------------------------------------------------- concurrent callers
\* the return paths that call latch_.unlock() without the one of a failed
\* FindVictim
UnlockingPathsNoExhausted == {"hit", "free", "victim", "none"}

\* the return paths that call latch_.unlock() before they return
UnlockingPaths == {"hit", "free", "victim", "exhausted", "none"}

\* latch_.lock(): a thread enters an operation when the latch is free
Lock(t) ==
  /\ pc[t] = "idle"
  /\ latch_ = NoThread
  /\ latch_' = t
  /\ pc' = [pc EXCEPT ![t] = "locked"]
  /\ UNCHANGED <<replacer_impl, pages_, page_table_, free_list_, frames,
                 clock_hand, disk, next_page_id_, signalled, last>>

\* the body of the operation the thread is in, up to its return.  Nothing
\* else runs while the thread holds the latch, so which operation it entered
\* is drawn here.  NewPage allocates no page id when FindVictim fails, so that
\* path stays open when the page ids are used up.
Call(t) ==
  /\ pc[t] = "locked"
  /\ latch_ = t
  /\ \/ \E p \in Fetchable : PinBelow(p, MaxPinThreads) /\ FetchPageImpl(p)
     \/ \E p \in Allocated, d \in BOOLEAN : UnpinPageImpl(p, d)
     \/ \E p \in Allocated : FlushPageImpl(p)
     \/ (next_page_id_ < MaxPagesThreads \/ ~FindVictim.success)
          /\ NewPageImpl
     \/ \E p \in Allocated : DeletePageImpl(p)
     \/ FlushAllPagesImpl
  /\ latch_' = IF last'.src \in UnlockingPaths THEN NoThread ELSE latch_
  /\ pc' = [pc EXCEPT ![t] = "idle"]

NextThreads == \E t \in Threads : Lock(t) \/ Call(t)

\* a thread that holds the latch is running: the scheduler lets it finish
SpecThreads ==
  Init /\ [][NextThreads]_vars /\ \A t \in Threads : WF_vars(Call(t))

\* ------------------------------------------------------------------ claims
Reassigned(l) == l.op \in {"Fetch", "New"} /\ l.src \in {"free", "victim"}

FramesOf(p) == {f \in Frames : pages_[f].page_id_ = p}

FreeFrames == {free_list_[i] : i \in DOMAIN free_list_}

DirectoryFrames == {page_table_[p] : p \in DOMAIN page_table_}

\* C1: whenever FetchPage (on a miss) or NewPage reassigns a frame, that
\* frame's pin_count was 0 immediately before.
C1_PinnedFrameNeverReassigned ==
  [][Reassigned(last') => pages_[last'.frame].pin_count_ = 0]_vars

\* C2: once bytes written into the followed page were signalled with
\* UnpinPage(P, true), a FetchPage(P) that has to read P back from disk
\* returns exactly those bytes.
C2_WriteBackRoundTrip ==
  (Reassigned(last) /\ last.op = "Fetch" /\ last.page_id = TrackedPage
     /\ signalled # NoData)
  => pages_[last.frame].data_ = signalled

\* C3: is_dirty goes from true to false only through a write to disk
\* (FlushPage, FlushAllPages, write-back of the frame as a victim) or the
\* reset of DeletePage; UnpinPage never clears it.
C3_DirtyMonotonic ==
  [][\A f \in Frames :
       (pages_[f].is_dirty_ /\ ~pages_'[f].is_dirty_)
       => \/ last'.op \in {"Flush", "FlushAll", "Delete"}
          \/ (Reassigned(last') /\ last'.frame = f)]_vars

\* C4: a frame that holds a page (so it has been resident) is a candidate of
\* the replacer iff its pin_count is 0, and no frame is both evictable and
\* pinned.
C4_CandidateIffUnpinned ==
  /\ \A f \in Frames :
       pages_[f].page_id_ # INVALID_PAGE_ID
       => (frames[f].in_replacer <=> pages_[f].pin_count_ = 0)
  /\ \A f \in Frames : ~(frames[f].in_replacer /\ pages_[f].pin_count_ > 0)

\* C5: a page id is a key of the directory iff exactly one frame has that
\* page_id, the directory maps it to that frame, and no two page ids map to
\* the same frame.
C5_DirectoryAgreesWithFrames ==
  /\ \A p \in PageIds :
       /\ Resident(p) <=> FramesOf(p) # {}
       /\ Resident(p) => FramesOf(p) = {page_table_[p]}
  /\ \A p, q \in DOMAIN page_table_ :
       page_table_[p] = page_table_[q] => p = q
  /\ DOMAIN page_table_ \subseteq PageIds

\* C5 witness: a victim of the replacer was given to another page, and the
\* directory holds as many pages as there are frames.
C5_Witness ==
  /\ last.ok /\ last.src = "victim"
  /\ Cardinality(DOMAIN page_table_) = PoolSize

\* C6: a frame index is in the free list iff it is not a value of the
\* directory; the free list starts with all frames 0..N-1; a frame leaves it
\* only when a Fetch miss or NewPage takes it, and enters it only through a
\* successful DeletePage.
C6_FreeListIffNotInDirectory ==
  /\ free_list_ = [i \in 1 .. PoolSize |-> i - 1]
  /\ [](/\ FreeFrames \cap DirectoryFrames = {}
        /\ FreeFrames \cup DirectoryFrames = Frames
        /\ Cardinality(FreeFrames) = Len(free_list_))
  /\ [][\A f \in Frames :
          /\ (f \in FreeFrames /\ f \notin FreeFrames')
             => (Reassigned(last') /\ last'.src = "free" /\ last'.frame = f)
          /\ (f \notin FreeFrames /\ f \in FreeFrames')
             => (last'.op = "Delete" /\ last'.ok /\ last'.frame = f)]_vars

\* C6 witness: a frame is back in the free list after a successful DeletePage
\* while the other frames hold pages.
C6_Witness ==
  /\ last.op = "Delete" /\ last.ok /\ last.src = "hit"
  /\ last.frame \in FreeFrames
  /\ DirectoryFrames # {}

\* C7: Victim returns "no victim" only if no frame is evictable.
C7_VictimWheneverEvictable ==
  [][(last'.op \in {"Fetch", "New"} /\ last'.src = "exhausted") => Size = 0]_vars

\* C8: FetchPage on a miss and NewPage fail only when the free list is empty
\* and every frame has pin_count > 0.
C8_FailsOnlyWhenAllPinned ==
  [][(last'.op \in {"Fetch", "New"} /\ ~last'.ok)
       => /\ free_list_ = << >>
          /\ \A f \in Frames : pages_[f].pin_count_ > 0]_vars

\* C9: DeletePage of a page id that is not resident returns true and changes
\* nothing; of a resident page with pin_count > 0 it returns false and leaves
\* the directory, the frames, the free list, the replacer and the disk
\* unchanged, and calls no DeallocatePage; after a DeletePage that returned
\* true the page is not resident, so a second one returns true as well.
C9_DeleteOutcomes ==
  [][last'.op = "Delete" =>
       LET p == last'.page_id
       IN /\ ~Resident(p)
               => /\ last'.ok
                  /\ last'.dealloc = INVALID_PAGE_ID
                  /\ UNCHANGED <<pages_, page_table_, free_list_, frames,
                                 clock_hand, disk, next_page_id_>>
          /\ (Resident(p) /\ pages_[page_table_[p]].pin_count_ > 0)
               => /\ ~last'.ok
                  /\ last'.dealloc = INVALID_PAGE_ID
                  /\ UNCHANGED <<pages_, page_table_, free_list_, frames,
                                 clock_hand, disk, next_page_id_>>
          /\ last'.ok => last'.page_id \notin DOMAIN page_table_']_vars

\* C9 witness: DeletePage has just refused a pinned resident page.
C9_Witness ==
  /\ last.op = "Delete" /\ ~last.ok
  /\ Resident(last.page_id)
  /\ pages_[page_table_[last.page_id]].pin_count_ > 0

\* C10: after a successful DeletePage of a resident page the page is
\* deallocated, its directory entry is gone, the frame is empty and in the
\* free list, and the frame is no candidate of the replacer.
C10_DeleteDropsCandidate ==
  (last.op = "Delete" /\ last.ok /\ last.src = "hit")
  => /\ last.dealloc = last.page_id
     /\ ~Resident(last.page_id)
     /\ pages_[last.frame] = EmptyPage
     /\ last.frame \in FreeFrames
     /\ ~frames[last.frame].in_replacer

PinOf(p) == pages_[page_table_[p]].pin_count_

\* C11: the pin_count of a resident page is never negative; it is 1 when the
\* page becomes resident through a successful FetchPage or NewPage, and from
\* then on each successful FetchPage of the page adds exactly 1, each UnpinPage
\* that finds it above 0 takes exactly 1 away and nothing else changes it.
\* UnpinPage of a resident page with pin_count 0 returns true and leaves it 0;
\* UnpinPage of a page id that is not resident returns false and changes
\* nothing; a decrement that reaches 0 makes the frame a candidate.
C11_PinAccounting ==
  /\ [](\A f \in Frames : pages_[f].pin_count_ >= 0)
  /\ [][\A p \in PageIds :
          LET called == last'.page_id = p
              fetched == called /\ last'.op \in {"Fetch", "New"} /\ last'.ok
              unpinned == called /\ last'.op = "Unpin"
          IN /\ (~Resident(p) /\ p \in DOMAIN page_table_')
                  => (fetched /\ pages_'[page_table_'[p]].pin_count_ = 1)
             /\ (Resident(p) /\ p \in DOMAIN page_table_')
                  => pages_'[page_table_'[p]].pin_count_
                       = PinOf(p) + (IF fetched THEN 1 ELSE 0)
                                  - (IF unpinned /\ PinOf(p) > 0 THEN 1 ELSE 0)
             /\ (unpinned /\ Resident(p))
                  => /\ last'.ok
                     /\ (PinOf(p) = 1 => frames'[page_table_[p]].in_replacer)
             /\ (unpinned /\ ~Resident(p))
                  => /\ ~last'.ok
                     /\ UNCHANGED <<pages_, page_table_, free_list_, frames,
                                    clock_hand, disk, next_page_id_>>]_vars

\* C11 witness: UnpinPage has just taken a page that was pinned twice down to
\* pin_count 1.
C11_Witness ==
  /\ last.op = "Unpin" /\ last.ok
  /\ pages_[last.frame].pin_count_ = 1

\* C12: FlushPage returns true exactly when the page is resident, dirty or
\* clean and whatever its pin_count; on a dirty resident page it writes the
\* content to disk under the page id and clears the dirty bit; it never
\* changes a pin_count, the directory, the free list or the replacer.
C12_FlushSucceedsIffResident ==
  [][last'.op = "Flush" =>
       LET p == last'.page_id
       IN /\ last'.ok <=> Resident(p)
          /\ (Resident(p) /\ pages_[page_table_[p]].is_dirty_)
               => /\ disk'[p] = pages_[page_table_[p]].data_
                  /\ ~pages_'[page_table_[p]].is_dirty_
          /\ \A f \in Frames : pages_'[f].pin_count_ = pages_[f].pin_count_
          /\ UNCHANGED <<page_table_, free_list_, frames, clock_hand>>]_vars

\* C13: whenever the free list is not empty, FetchPage on a miss and NewPage
\* succeed with the frame at the front of the free list, leave the clock hand
\* and the reference bits alone and the candidacy of every other frame (no
\* victim selection), remove no directory entry and write nothing to disk; a
\* frame freed by DeletePage while all other frames are pinned is the frame
\* the next NewPage uses.
C13_FreeListBeforeEviction ==
  /\ [][(last'.op \in {"Fetch", "New"} /\ last'.src # "hit"
           /\ free_list_ # << >>)
          => /\ last'.ok /\ last'.src = "free"
             /\ last'.frame = Head(free_list_)
             /\ free_list_' = Tail(free_list_)
             /\ clock_hand' = clock_hand
             /\ \A g \in Frames :
                  /\ frames'[g].ref = frames[g].ref
                  /\ g # last'.frame => frames'[g] = frames[g]
             /\ DOMAIN page_table_' = DOMAIN page_table_ \cup {last'.page_id}
             /\ disk' = disk]_vars
  /\ [][(/\ last.op = "Delete" /\ last.ok /\ last.src = "hit"
         /\ \A g \in Frames \ {last.frame} : pages_[g].pin_count_ > 0
         /\ last'.op = "New")
          => (last'.ok /\ last'.frame = last.frame)]_vars

\* C13 witness: NewPage has just taken from the free list a frame that a
\* DeletePage had put back there, while every other frame is pinned.
C13_Witness ==
  /\ last.op = "New" /\ last.ok /\ last.src = "free"
  /\ last.page_id >= PoolSize
  /\ \A g \in Frames \ {last.frame} : pages_[g].pin_count_ > 0

\* C14: a thread that has acquired the latch eventually returns and the latch
\* is released on every return path, with a definite result; the latch is
\* only ever held by a thread that is inside an operation, at every moment
\* some thread is either free to take the latch or holds it (no thread set
\* waits for a latch nobody will release), and a call that finds no victim returns false at once
\* without changing a frame, the directory or the free list.
C14_NoOperationBlocks ==
  /\ [](latch_ # NoThread => pc[latch_] = "locked")
  /\ [](\E t \in Threads : \/ pc[t] = "idle" /\ latch_ = NoThread
                           \/ pc[t] = "locked" /\ latch_ = t)
  /\ \A t \in Threads : (latch_ = t) ~> (latch_ = NoThread)
  /\ [][\A t \in Threads :
          (pc[t] = "locked" /\ pc'[t] = "idle")
          => /\ latch_' = NoThread
             /\ last'.ok \in BOOLEAN
             /\ last'.src = "exhausted"
                  => /\ ~last'.ok
                     /\ UNCHANGED <<pages_, page_table_, free_list_, disk>>]_vars

\* C14 witness: a call that found neither a free frame nor a victim has
\* returned and the latch is free again.
C14_Witness ==
  /\ last.op \in {"Fetch", "New"} /\ last.src = "exhausted"
  /\ latch_ = NoThread
  /\ \A t \in Threads : pc[t] = "idle"

\* second-chance selection as C15 words it: the i-th frame met is
\* (hand + i) % PoolSize, i = 1, 2, ... for at most two turns; an evictable
\* frame with its reference bit set loses the bit and is passed, the first
\* evictable frame with the bit clear is returned and is no longer evictable.
RECURSIVE SecondChance(_, _, _)
SecondChance(hand, i, fr) ==
  LET g == (hand + i) % PoolSize
  IN IF i > 2 * PoolSize THEN [ok |-> FALSE, frame_id |-> NoFrame, frames |-> fr]
     ELSE IF fr[g].in_replacer /\ ~fr[g].ref
          THEN [ok |-> TRUE, frame_id |-> g,
                frames |-> [fr EXCEPT ![g].in_replacer = FALSE]]
     ELSE IF fr[g].in_replacer
          THEN SecondChance(hand, i + 1, [fr EXCEPT ![g].ref = FALSE])
     ELSE SecondChance(hand, i + 1, fr)

\* C15: whenever FetchPage or NewPage asks the replacer for a victim, the
\* answer is the one of the second-chance scan that starts just after the
\* clock hand: the same frame (or none), the reference bits cleared on the
\* frames passed, the victim no longer evictable and every other frame's
\* candidacy and the other reference bits unchanged.
C15_SecondChanceOrder ==
  [][(last'.op \in {"Fetch", "New"} /\ last'.src \in {"victim", "exhausted"})
       => LET r == SecondChance(clock_hand, 1, frames)
          IN /\ last'.ok = r.ok
             /\ last'.frame = r.frame_id
             /\ frames' = r.frames]_vars


\* C16: the clock hand always lies in 0..N-1; it changes only in an operation
\* that asks the replacer for a victim (never through Pin, Unpin or Size), and
\* after a victim search that returned frame f it is (f + 1) mod N.
C16_ClockHandPersistence ==
  /\ [](clock_hand \in Frames)
  /\ [][/\ clock_hand' # clock_hand
             => last'.src \in {"victim", "exhausted"}
        /\ last'.src = "victim"
             => clock_hand' = (last'.frame + 1) % PoolSize]_vars

\* C17: FetchPage of a resident page adds exactly 1 to the pin_count of the
\* page's frame and changes nothing else in the frames; when the count goes
\* from 0 to 1 the frame stops being a candidate; the disk, the clock hand
\* and the reference bits (no victim selection), the directory, the free
\* list and the replacer entries of the other frames are unchanged.
C17_HitShortCircuits ==
  [][(last'.op = "Fetch" /\ Resident(last'.page_id))
       => LET fid == page_table_[last'.page_id]
          IN /\ last'.ok /\ last'.src = "hit" /\ last'.frame = fid
             /\ pages_' = [pages_ EXCEPT ![fid].pin_count_ = @ + 1]
             /\ pages_[fid].pin_count_ = 0 => ~frames'[fid].in_replacer
             /\ \A g \in Frames :
                  /\ frames'[g].ref = frames[g].ref
                  /\ g # fid => frames'[g] = frames[g]
             /\ UNCHANGED <<page_table_, free_list_, disk, clock_hand>>]_vars

\* C17 witness: FetchPage has just hit a page that was already pinned, in a
\* pool with no free frame.
C17_Witness ==
  /\ last.op = "Fetch" /\ last.src = "hit"
  /\ pages_[last.frame].pin_count_ = 2
  /\ free_list_ = << >>

\* C18: whenever FetchPage on a miss or NewPage reuses a frame that is dirty,
\* the disk receives the frame's old content under the frame's old page id
\* and nothing else, the old directory entry is gone, and the frame holds the
\* new page clean with pin_count exactly 1.
C18_WriteBackBeforeReuse ==
  [][(Reassigned(last') /\ pages_[last'.frame].is_dirty_)
       => LET f == last'.frame
              old == pages_[f].page_id_
          IN /\ disk' = [disk EXCEPT ![old] = pages_[f].data_]
             /\ old \notin DOMAIN page_table_'
             /\ pages_'[f].page_id_ = last'.page_id
             /\ ~pages_'[f].is_dirty_
             /\ pages_'[f].pin_count_ = 1]_vars

\* C18 witness: a dirty frame that held written bytes of the followed page
\* was reused and the bytes are on disk under the followed page's id.
C18_Witness ==
  /\ Reassigned(last) /\ last.src = "victim"
  /\ last.page_id # TrackedPage
  /\ ~Resident(TrackedPage)
  /\ disk[TrackedPage] = "bytes"
  /\ disk[last.page_id] # "bytes"

\* C19: FlushAllPages writes every resident dirty frame to disk under its own
\* page id and nothing else, clears the dirty bits and changes nothing else in
\* the frames, the directory, the free list or the replacer; afterwards no
\* resident frame is dirty, and the disk copy of a resident page whose written
\* bytes were signalled with UnpinPage(P, true) equals its content in memory.
C19_FlushAllPages ==
  [][last'.op = "FlushAll" =>
       /\ \A f \in Frames : pages_'[f] = [pages_[f] EXCEPT !.is_dirty_ = FALSE]
       /\ \A p \in PageIds :
            disk'[p] = IF Resident(p) /\ pages_[page_table_[p]].is_dirty_
                       THEN pages_[page_table_[p]].data_
                       ELSE disk[p]
       /\ (Resident(TrackedPage) /\ signalled # NoData)
            => disk'[TrackedPage] = pages_'[page_table_[TrackedPage]].data_
       /\ UNCHANGED <<page_table_, free_list_, frames, clock_hand>>]_vars

FreeClass(f) ==
  /\ f \in FreeFrames
  /\ pages_[f] = EmptyPage
  /\ ~frames[f].in_replacer

PinnedClass(f) ==
  /\ f \in DirectoryFrames
  /\ pages_[f].pin_count_ > 0
  /\ ~frames[f].in_replacer

UnpinnedClass(f) ==
  /\ f \in DirectoryFrames
  /\ pages_[f].pin_count_ = 0
  /\ frames[f].in_replacer

\* C20: every frame is in exactly one of three classes: in the free list
\* (empty, no candidate), resident and pinned (no candidate), resident and
\* unpinned (candidate); so |free list| + Size() + the number of pinned frames
\* is N, the free list has no duplicates, and the replacer never returns a
\* frame that is in the free list.
C20_FramePartition ==
  /\ [](/\ \A f \in Frames :
             /\ FreeClass(f) \/ PinnedClass(f) \/ UnpinnedClass(f)
             /\ ~(FreeClass(f) /\ PinnedClass(f))
             /\ ~(FreeClass(f) /\ UnpinnedClass(f))
             /\ ~(PinnedClass(f) /\ UnpinnedClass(f))
        /\ Len(free_list_) + Size
             + Cardinality({f \in Frames : pages_[f].pin_count_ > 0}) = PoolSize
        /\ Cardinality(FreeFrames) = Len(free_list_))
  /\ [][last'.src = "victim" => last'.frame \notin FreeFrames]_vars
====
